---- MODULE Spec2Model ----
(***************************************************************************)
(* Model of the pueo Tauri backend (src-tauri/src/lib.rs): the shared      *)
(* AppState (client behind a tokio Mutex), the init_ai command and the     *)
(* stream_chat command: history building from the message log, opening of  *)
(* the rig multi-turn stream, and the loop that forwards stream items to   *)
(* the window (the Sink) as events.                                        *)
(*                                                                         *)
(* Text is modelled as a sequence of characters, so that is_empty is       *)
(* comparison with <<>> and push_str is \o.                                *)
(*                                                                         *)
(* The provider stream is produced by the rig library, which is not part   *)
(* of the repository: every pull may yield any item or the end of the      *)
(* stream.  window.emit may fail at every call.                            *)
(***************************************************************************)
EXTENDS Integers, Sequences, FiniteSets, TLC

\* ---------------------------------------------------------------- bounds
MaxLog == 3        \* longest message log drawn in SpecHistory
MaxItems == 4      \* most items pulled from one provider stream
MaxConcItems == 2  \* most items pulled from one stream in SpecConc
MaxNow == 2        \* last millisecond of the clock
MaxRows == 4       \* most rows of game_versions

\* ------------------------------------------------------- program constants
MultiTurnDepth == 5

\* ------------------------------------------------------------------ data
Runs == {1, 2}                 \* invocations of stream_chat
NoKey == 0                     \* the empty api key / Option::None client
Keys == {1, 2}                 \* non-empty api keys

Roles == {"system", "user", "assistant", "tool"}
Contents == {<<>>, <<"a">>, <<"b">>}

ChatMessage == [role : Roles, content : Contents]

\* every message log of at most MaxLog messages
Logs == UNION {[1..n -> ChatMessage] : n \in 0..MaxLog}

Msg(r, c) == [role |-> r, content |-> c]

\* message logs used by the streaming specification
ScenarioLogs ==
  { <<Msg("user", <<"a">>)>>,
    <<Msg("system", <<"b">>), Msg("user", <<"a">>), Msg("assistant", <<"b">>), Msg("user", <<"a">>)>>,
    <<Msg("assistant", <<"a">>)>>,
    <<Msg("user", <<"a">>), Msg("tool", <<"b">>)>> }

\* rig::completion::Message::user / Message::assistant
MessageUser(c) == [role |-> "user", content |-> c]
MessageAssistant(c) == [role |-> "assistant", content |-> c]

BasePrompt == <<"BASE">>       \* game_builder::get_system_prompt()

\* ------------------------------------------------- items of the rig stream
Deltas == {<<"x">>, <<"y">>}
Item(k, v) == [kind |-> k, val |-> v]

\* game_builder.rs 741-764: PhaserGameSpec, reduced to the fields the tool
\* looks at: the number of scenes and the canvas size
GameSpecs == [scenes : 0..1, width : {0, 800}, height : {0, 600}]
Spec800x600 == [scenes |-> 1, width |-> 800, height |-> 600]
SpecZeroWidth == [scenes |-> 1, width |-> 0, height |-> 600]
NoSpecJson == [scenes |-> 0, width |-> 0, height |-> 0]

\* Result<String, GameBuilderError>: the serialized spec or the error
ToolOk(args) == [tag |-> "Ok", json |-> args, msg |-> "-"]
ToolErr(m) == [tag |-> "InvalidConfiguration", json |-> NoSpecJson, msg |-> m]

PhaserGameToolCall_BothZero(args) ==
  IF args.scenes = 0
    THEN ToolErr("Game must have at least one scene")
    ELSE IF args.width = 0 /\ args.height = 0
      THEN ToolErr("Game dimensions must be greater than 0")
      ELSE ToolOk(args)

\* game_builder.rs 792-809: PhaserGameTool::call
PhaserGameToolCall(args) ==
  IF args.scenes = 0
    THEN ToolErr("Game must have at least one scene")
    ELSE IF args.width = 0 \/ args.height = 0
      THEN ToolErr("Game dimensions must be greater than 0")
      ELSE ToolOk(args)

\* u32 widths and heights, and the specs the tool is called with
U32Samples == {0, 1, 600, 800}
ToolInputs == [scenes : 0..2, width : U32Samples, height : U32Samples]
NoToolOutput == [tag |-> "none", json |-> NoSpecJson, msg |-> "-"]

\* the arguments of the tool calls and the contents of the tool results
\* that the streams of the model carry
ToolArgs == {Spec800x600, SpecZeroWidth}
ToolResults == {PhaserGameToolCall(a) : a \in ToolArgs}

StreamItems ==
  {Item("Text", d) : d \in Deltas}
    \cup {Item("ToolCall", a) : a \in ToolArgs}
    \cup {Item("AssistantOther", "-")}
    \cup {Item("ToolResult", v) : v \in ToolResults}
    \cup {Item("FinalResponse", <<"f">>)}
    \cup {Item("OtherItem", "-")}
    \cup {Item("Err", "e")}

\* ------------------------------------------------------------ database
Callers == {1, 2}              \* invocations of the game commands

\* db.rs 96-103: format!("game_{}", timestamp)
GameId(timestamp) == <<"game_", timestamp>>
GameIds == {GameId(t) : t \in 0..MaxNow}
NoId == <<"", 0>>

\* the specs stored by the game commands
DbSpecs == {"p", "q"}

\* serde_json::to_string / serde_json::from_str of a PhaserGameSpec
ToJson(spec) == <<"json", spec>>
FromJson(spec_json) == spec_json[2]

NoLocals == [id |-> NoId, spec |-> "-", new_version |-> 0]
NoResult == [op |-> "none", tag |-> "none", id |-> NoId, spec |-> "-", version |-> 0]

\* db.rs 140-148 and 230-238: Ok(GameRecord)
OkRecord(op, id, spec, version) ==
  [op |-> op, tag |-> "Ok", id |-> id, spec |-> spec, version |-> version]

\* db.rs 11-23: DbError
DbErr(op, tag, id) == [op |-> op, tag |-> tag, id |-> id, spec |-> "-", version |-> 0]

\* events received by the window
Event(n, p) == [name |-> n, payload |-> p]

\* ----------------------------------------------------------------- state
VARIABLES
  client,                \* AppState.client: NoKey (None) or the key of Some(client)
  lock,                  \* holder of the client mutex: 0 or a run
  initRet,               \* result of the last init_ai call
  is_initialized,        \* result of the last is_ai_initialized call
  pc,                    \* per run: "idle", "lock", "streaming", "done"
  messages,              \* per run: the message log argument
  request,               \* per run: the stream opened on the agent, or NoRequest
  accumulated_response,  \* per run
  has_received_text,     \* per run
  pulled,                \* per run: items the stream has yielded so far
  sink,                  \* per run: events delivered to the window
  ret                    \* per run: return value of stream_chat

\* the database behind the game commands (db.rs), and the callers of its
\* operations
VARIABLES
  games,                 \* rows of table games
  game_versions,         \* rows of table game_versions, in insertion order
  now,                   \* SystemTime::now() in milliseconds
  dbpc,                  \* per caller: the query its operation awaits, or "idle"
  dblocal,               \* per caller: the locals of its operation
  dbret,                 \* per caller: the result of its last operation
  updates_done           \* per game id: update_game calls that returned Ok

dbVars == <<games, game_versions, now, dbpc, dblocal, dbret, updates_done>>

chatVars == <<client, lock, initRet, is_initialized, pc, messages, request,
              accumulated_response, has_received_text, pulled, sink, ret>>

\* the game tool called on its own (game_builder.rs)
VARIABLES
  tool_args,             \* the arguments of the last call of the tool
  tool_output            \* what that call returned

toolVars == <<tool_args, tool_output>>

vars == <<client, lock, initRet, pc, messages, request, accumulated_response,
          has_received_text, pulled, sink, ret, games, game_versions, now,
          dbpc, dblocal, dbret, updates_done, tool_args, tool_output,
          is_initialized>>

NoRequest == [mode |-> "none"]

\* ------------------------------------------------------- history building
\* lib.rs 71-73: the three locals before the loop
BuildInit ==
  [system_prompt |-> BasePrompt, history |-> <<>>, last_user_message |-> <<>>,
   err |-> "none"]

BuildStep_SkipUnknown(st, msg) ==
  IF st.err # "none" THEN st
  ELSE CASE msg.role = "system" ->
              [st EXCEPT !.system_prompt = @ \o <<"\n">> \o msg.content]
         [] msg.role = "user" ->
              [st EXCEPT !.last_user_message = msg.content]
         [] msg.role = "assistant" ->
              LET withUser ==
                    IF st.last_user_message # <<>>
                      THEN [st EXCEPT !.history = Append(@, MessageUser(st.last_user_message)),
                                      !.last_user_message = <<>>]
                      ELSE st
              IN [withUser EXCEPT !.history = Append(@, MessageAssistant(msg.content))]
         [] OTHER -> st

BuildStep_KeepFirst(st, msg) ==
  IF st.err # "none" THEN st
  ELSE CASE msg.role = "system" ->
              [st EXCEPT !.system_prompt = @ \o <<"\n">> \o msg.content]
         [] msg.role = "user" ->
              IF st.last_user_message = <<>>
                THEN [st EXCEPT !.last_user_message = msg.content]
                ELSE st
         [] msg.role = "assistant" ->
              LET withUser ==
                    IF st.last_user_message # <<>>
                      THEN [st EXCEPT !.history = Append(@, MessageUser(st.last_user_message)),
                                      !.last_user_message = <<>>]
                      ELSE st
              IN [withUser EXCEPT !.history = Append(@, MessageAssistant(msg.content))]
         [] OTHER -> [st EXCEPT !.err = "Unknown role"]

BuildStep_SystemResets(st, msg) ==
  IF st.err # "none" THEN st
  ELSE CASE msg.role = "system" ->
              [st EXCEPT !.system_prompt = @ \o <<"\n">> \o msg.content,
                         !.last_user_message = <<>>]
         [] msg.role = "user" ->
              [st EXCEPT !.last_user_message = msg.content]
         [] msg.role = "assistant" ->
              LET withUser ==
                    IF st.last_user_message # <<>>
                      THEN [st EXCEPT !.history = Append(@, MessageUser(st.last_user_message)),
                                      !.last_user_message = <<>>]
                      ELSE st
              IN [withUser EXCEPT !.history = Append(@, MessageAssistant(msg.content))]
         [] OTHER -> [st EXCEPT !.err = "Unknown role"]

\* lib.rs 75-94: one iteration of `for msg in messages`
BuildStep(st, msg) ==
  IF st.err # "none" THEN st
  ELSE CASE msg.role = "system" ->
              [st EXCEPT !.system_prompt = @ \o <<"\n">> \o msg.content]
         [] msg.role = "user" ->
              [st EXCEPT !.last_user_message = msg.content]
         [] msg.role = "assistant" ->
              LET withUser ==
                    IF st.last_user_message # <<>>
                      THEN [st EXCEPT !.history = Append(@, MessageUser(st.last_user_message)),
                                      !.last_user_message = <<>>]
                      ELSE st
              IN [withUser EXCEPT !.history = Append(@, MessageAssistant(msg.content))]
         [] OTHER -> [st EXCEPT !.err = "Unknown role"]

RECURSIVE BuildFrom(_, _)
BuildFrom(st, msgs) ==
  IF msgs = <<>> THEN st ELSE BuildFrom(BuildStep(st, Head(msgs)), Tail(msgs))

BuildHistory(msgs) == BuildFrom(BuildInit, msgs)

OpenStream_Inverted(b) ==
  [mode |-> IF b.history # <<>> THEN "prompt" ELSE "chat",
   preamble |-> b.system_prompt,
   prompt |-> b.last_user_message,
   history |-> b.history,
   max_depth |-> MultiTurnDepth]

\* lib.rs 96-111: the agent and the stream opened on it
OpenStream(b) ==
  [mode |-> IF b.history = <<>> THEN "prompt" ELSE "chat",
   preamble |-> b.system_prompt,
   prompt |-> b.last_user_message,
   history |-> b.history,
   max_depth |-> MultiTurnDepth]

\* ------------------------------------------------------------------ Init
Init ==
  /\ client \in {NoKey} \cup Keys
  /\ lock = 0
  /\ initRet = "none"
  /\ is_initialized = "none"
  /\ pc = [r \in Runs |-> "idle"]
  /\ messages = [r \in Runs |-> <<>>]
  /\ request = [r \in Runs |-> NoRequest]
  /\ accumulated_response = [r \in Runs |-> <<>>]
  /\ has_received_text = [r \in Runs |-> FALSE]
  /\ pulled = [r \in Runs |-> <<>>]
  /\ sink = [r \in Runs |-> <<>>]
  /\ ret = [r \in Runs |-> "none"]
  /\ games = {}
  /\ game_versions = <<>>
  /\ now = 0
  /\ dbpc = [c \in Callers |-> "idle"]
  /\ dblocal = [c \in Callers |-> NoLocals]
  /\ dbret = [c \in Callers |-> NoResult]
  /\ updates_done = [id \in GameIds |-> 0]
  /\ tool_args = NoSpecJson
  /\ tool_output = NoToolOutput

runVars == <<pc, messages, request, accumulated_response, has_received_text,
             pulled, sink, ret>>

\* --------------------------------------------------------------- actions
InitAi_EmptyKeyClears(api_key) ==
  /\ api_key # NoKey => lock = 0
  /\ IF api_key = NoKey
       THEN /\ initRet' = "Err"
            /\ client' = NoKey
       ELSE /\ client' = api_key
            /\ initRet' = "Ok"
  /\ UNCHANGED <<lock, runVars>>
  /\ UNCHANGED <<dbVars, toolVars, is_initialized>>

\* lib.rs 42-51: an empty key is refused before the client is locked
InitAi(api_key) ==
  /\ api_key # NoKey => lock = 0
  /\ IF api_key = NoKey
       THEN /\ initRet' = "Err"
            /\ UNCHANGED client
       ELSE /\ client' = api_key
            /\ initRet' = "Ok"
  /\ UNCHANGED <<lock, runVars>>
  /\ UNCHANGED <<dbVars, toolVars, is_initialized>>

\* lib.rs 35-39: lock the client and tell whether it is Some
IsAiInitialized ==
  /\ lock = 0
  /\ is_initialized' = IF client # NoKey THEN "true" ELSE "false"
  /\ UNCHANGED <<client, lock, initRet, runVars, dbVars, toolVars>>

\* the host invokes the stream_chat command with a message log out of logs
Invoke(r, logs) ==
  /\ pc[r] = "idle"
  /\ pc' = [pc EXCEPT ![r] = "lock"]
  /\ \E log \in logs : messages' = [messages EXCEPT ![r] = log]
  /\ UNCHANGED <<client, lock, initRet, request, accumulated_response,
                 has_received_text, pulled, sink, ret>>
  /\ UNCHANGED <<dbVars, toolVars, is_initialized>>

\* stream_chat returns v: the guard on the client is dropped
Return(r, v) ==
  /\ pc' = [pc EXCEPT ![r] = "done"]
  /\ ret' = [ret EXCEPT ![r] = v]
  /\ lock' = 0

Start_HistoryFirst(r) ==
  /\ pc[r] = "lock"
  /\ lock = 0
  /\ LET b == BuildHistory(messages[r]) IN
       IF b.err # "none"
         THEN /\ Return(r, "Err: Unknown role")
              /\ UNCHANGED request
         ELSE IF client = NoKey
           THEN /\ Return(r, "Err: AI client not initialized")
                /\ UNCHANGED request
           ELSE /\ pc' = [pc EXCEPT ![r] = "streaming"]
                /\ lock' = r
                /\ request' = [request EXCEPT ![r] = OpenStream(b)]
                /\ UNCHANGED ret
  /\ UNCHANGED <<client, initRet, messages, accumulated_response,
                 has_received_text, pulled, sink>>
  /\ UNCHANGED <<dbVars, toolVars, is_initialized>>

Start_NoLock(r) ==
  /\ pc[r] = "lock"
  /\ LET b == BuildHistory(messages[r]) IN
       IF client = NoKey
         THEN /\ Return(r, "Err: AI client not initialized")
              /\ UNCHANGED request
         ELSE IF b.err # "none"
           THEN /\ Return(r, "Err: Unknown role")
                /\ UNCHANGED request
           ELSE /\ pc' = [pc EXCEPT ![r] = "streaming"]
                /\ UNCHANGED lock
                /\ request' = [request EXCEPT ![r] = OpenStream(b)]
                /\ UNCHANGED ret
  /\ UNCHANGED <<client, initRet, messages, accumulated_response,
                 has_received_text, pulled, sink>>
  /\ UNCHANGED <<dbVars, toolVars, is_initialized>>

\* lib.rs 61-115: lock the client, build the history, open the stream
Start(r) ==
  /\ pc[r] = "lock"
  /\ lock = 0
  /\ LET b == BuildHistory(messages[r]) IN
       IF client = NoKey
         THEN /\ Return(r, "Err: AI client not initialized")
              /\ UNCHANGED request
         ELSE IF b.err # "none"
           THEN /\ Return(r, "Err: Unknown role")
                /\ UNCHANGED request
           ELSE /\ pc' = [pc EXCEPT ![r] = "streaming"]
                /\ lock' = r
                /\ request' = [request EXCEPT ![r] = OpenStream(b)]
                /\ UNCHANGED ret
  /\ UNCHANGED <<client, initRet, messages, accumulated_response,
                 has_received_text, pulled, sink>>
  /\ UNCHANGED <<dbVars, toolVars, is_initialized>>

\* the provider stream of run r yields one more item
Yield(r, item) ==
  /\ pc[r] = "streaming"
  /\ Len(pulled[r]) < MaxItems
  /\ pulled' = [pulled EXCEPT ![r] = Append(@, item)]

Emit_Front(r, evs) == sink' = [sink EXCEPT ![r] = evs \o @]

\* window.emit(name, payload) succeeded
Emit(r, evs) == sink' = [sink EXCEPT ![r] = @ \o evs]

\* the loop goes on to the next stream.next()
Continue == UNCHANGED <<pc, ret, lock>>

PullText_ErrorOnFail(r, text, ok) ==
  /\ Yield(r, Item("Text", text))
  /\ has_received_text' = [has_received_text EXCEPT ![r] = TRUE]
  /\ accumulated_response' = [accumulated_response EXCEPT ![r] = @ \o text]
  /\ IF ok
       THEN /\ Emit(r, <<Event("chat-token", text)>>)
            /\ Continue
       ELSE /\ Emit(r, <<Event("chat-error", <<"Stream error: ", "emit">>)>>)
            /\ Return(r, "Err: Failed to emit token")
  /\ UNCHANGED <<client, initRet, messages, request>>
  /\ UNCHANGED <<dbVars, toolVars, is_initialized>>

PullText_Overwrite(r, text, ok) ==
  /\ Yield(r, Item("Text", text))
  /\ has_received_text' = [has_received_text EXCEPT ![r] = TRUE]
  /\ accumulated_response' = [accumulated_response EXCEPT ![r] = text]
  /\ IF ok
       THEN /\ Emit(r, <<Event("chat-token", text)>>)
            /\ Continue
       ELSE /\ Return(r, "Err: Failed to emit token")
            /\ UNCHANGED sink
  /\ UNCHANGED <<client, initRet, messages, request>>
  /\ UNCHANGED <<dbVars, toolVars, is_initialized>>

PullText_SharedBuffer(r, text, ok) ==
  /\ Yield(r, Item("Text", text))
  /\ has_received_text' = [has_received_text EXCEPT ![r] = TRUE]
  /\ accumulated_response' =
       [accumulated_response EXCEPT
          ![r] = accumulated_response[1] \o accumulated_response[2] \o text]
  /\ IF ok
       THEN /\ Emit(r, <<Event("chat-token", text)>>)
            /\ Continue
       ELSE /\ Return(r, "Err: Failed to emit token")
            /\ UNCHANGED sink
  /\ UNCHANGED <<client, initRet, messages, request>>
  /\ UNCHANGED <<dbVars, toolVars, is_initialized>>

\* lib.rs 121-127: StreamedAssistantContent::Text
PullText(r, text, ok) ==
  /\ Yield(r, Item("Text", text))
  /\ has_received_text' = [has_received_text EXCEPT ![r] = TRUE]
  /\ accumulated_response' = [accumulated_response EXCEPT ![r] = @ \o text]
  /\ IF ok
       THEN /\ Emit(r, <<Event("chat-token", text)>>)
            /\ Continue
       ELSE /\ Return(r, "Err: Failed to emit token")
            /\ UNCHANGED sink
  /\ UNCHANGED <<client, initRet, messages, request>>
  /\ UNCHANGED <<dbVars, toolVars, is_initialized>>

PullToolCall_Deferred(r, args, ok) ==
  /\ Yield(r, Item("ToolCall", args))
  /\ IF ok
       THEN /\ Continue
            /\ UNCHANGED sink
       ELSE /\ Return(r, "Err: Failed to emit tool call")
            /\ UNCHANGED sink
  /\ UNCHANGED <<client, initRet, messages, request, accumulated_response,
                 has_received_text>>
  /\ UNCHANGED <<dbVars, toolVars, is_initialized>>

\* lib.rs 128-142: StreamedAssistantContent::ToolCall
PullToolCall(r, args, ok) ==
  /\ Yield(r, Item("ToolCall", args))
  /\ IF ok
       THEN /\ Emit(r, <<Event("tool-call", args)>>)
            /\ Continue
       ELSE /\ Return(r, "Err: Failed to emit tool call")
            /\ UNCHANGED sink
  /\ UNCHANGED <<client, initRet, messages, request, accumulated_response,
                 has_received_text>>
  /\ UNCHANGED <<dbVars, toolVars, is_initialized>>

\* lib.rs 143 and 170: the `_ => ()` arms
PullIgnored(r, kind) ==
  /\ kind \in {"AssistantOther", "OtherItem"}
  /\ Yield(r, Item(kind, "-"))
  /\ Continue
  /\ UNCHANGED <<client, initRet, messages, request, accumulated_response,
                 has_received_text, sink>>
  /\ UNCHANGED <<dbVars, toolVars, is_initialized>>

PullToolResult_NoNewTurn(r, content, ok1, ok2) ==
  /\ Yield(r, Item("ToolResult", content))
  /\ IF ~ok1
       THEN /\ Return(r, "Err: Failed to emit tool result")
            /\ UNCHANGED <<sink, has_received_text>>
       ELSE /\ Emit(r, <<Event("tool-result", content)>>)
            /\ has_received_text' = [has_received_text EXCEPT ![r] = FALSE]
            /\ Continue
  /\ UNCHANGED <<client, initRet, messages, request, accumulated_response>>
  /\ UNCHANGED <<dbVars, toolVars, is_initialized>>

PullToolResult_FailureEndsRun(r, content, ok1, ok2) ==
  /\ Yield(r, Item("ToolResult", content))
  /\ IF ~ok1
       THEN /\ Return(r, "Err: Failed to emit tool result")
            /\ UNCHANGED <<sink, has_received_text>>
       ELSE IF ~ok2
         THEN /\ Emit(r, <<Event("tool-result", content)>>)
              /\ Return(r, "Err: Failed to emit new-turn")
              /\ UNCHANGED has_received_text
         ELSE IF content.tag # "Ok"
           THEN /\ Emit(r, <<Event("tool-result", content), Event("chat-new-turn", "-")>>)
                /\ Return(r, "Err: Tool failed")
                /\ UNCHANGED has_received_text
           ELSE /\ Emit(r, <<Event("tool-result", content), Event("chat-new-turn", "-")>>)
                /\ has_received_text' = [has_received_text EXCEPT ![r] = FALSE]
                /\ Continue
  /\ UNCHANGED <<client, initRet, messages, request, accumulated_response>>
  /\ UNCHANGED <<dbVars, toolVars, is_initialized>>

PullToolResult_NoReset(r, content, ok1, ok2) ==
  /\ Yield(r, Item("ToolResult", content))
  /\ IF ~ok1
       THEN /\ Return(r, "Err: Failed to emit tool result")
            /\ UNCHANGED sink
       ELSE IF ~ok2
         THEN /\ Emit(r, <<Event("tool-result", content)>>)
              /\ Return(r, "Err: Failed to emit new-turn")
         ELSE /\ Emit(r, <<Event("tool-result", content), Event("chat-new-turn", "-")>>)
              /\ Continue
  /\ UNCHANGED <<client, initRet, messages, request, accumulated_response,
                 has_received_text>>
  /\ UNCHANGED <<dbVars, toolVars, is_initialized>>

\* lib.rs 145-163: StreamedUserContent::ToolResult
PullToolResult(r, content, ok1, ok2) ==
  /\ Yield(r, Item("ToolResult", content))
  /\ IF ~ok1
       THEN /\ Return(r, "Err: Failed to emit tool result")
            /\ UNCHANGED <<sink, has_received_text>>
       ELSE IF ~ok2
         THEN /\ Emit(r, <<Event("tool-result", content)>>)
              /\ Return(r, "Err: Failed to emit new-turn")
              /\ UNCHANGED has_received_text
         ELSE /\ Emit(r, <<Event("tool-result", content), Event("chat-new-turn", "-")>>)
              /\ has_received_text' = [has_received_text EXCEPT ![r] = FALSE]
              /\ Continue
  /\ UNCHANGED <<client, initRet, messages, request, accumulated_response>>
  /\ UNCHANGED <<dbVars, toolVars, is_initialized>>

\* lib.rs 164-169: MultiTurnStreamItem::FinalResponse
PullFinalResponse(r, response, ok) ==
  /\ Yield(r, Item("FinalResponse", response))
  /\ IF ok
       THEN /\ Emit(r, <<Event("chat-final-response", response)>>)
            /\ Continue
       ELSE /\ Return(r, "Err: Failed to emit final response")
            /\ UNCHANGED sink
  /\ UNCHANGED <<client, initRet, messages, request, accumulated_response,
                 has_received_text>>
  /\ UNCHANGED <<dbVars, toolVars, is_initialized>>

PullErr_NoReturn(r, e, ok) ==
  /\ Yield(r, Item("Err", e))
  /\ IF ok
       THEN /\ Emit(r, <<Event("chat-error", <<"Stream error: ", e>>)>>)
            /\ Continue
       ELSE /\ Return(r, "Err: Failed to emit error")
            /\ UNCHANGED sink
  /\ UNCHANGED <<client, initRet, messages, request, accumulated_response,
                 has_received_text>>
  /\ UNCHANGED <<dbVars, toolVars, is_initialized>>

\* lib.rs 172-177: the stream yields Err(e)
PullErr(r, e, ok) ==
  /\ Yield(r, Item("Err", e))
  /\ IF ok
       THEN /\ Emit(r, <<Event("chat-error", <<"Stream error: ", e>>)>>)
            /\ Return(r, "Err: Stream error")
       ELSE /\ Return(r, "Err: Failed to emit error")
            /\ UNCHANGED sink
  /\ UNCHANGED <<client, initRet, messages, request, accumulated_response,
                 has_received_text>>
  /\ UNCHANGED <<dbVars, toolVars, is_initialized>>

StreamEnd_Silent(r, ok) ==
  /\ pc[r] = "streaming"
  /\ IF ok
       THEN /\ Return(r, "Ok")
            /\ UNCHANGED sink
       ELSE /\ Return(r, "Err: Failed to emit completion")
            /\ UNCHANGED sink
  /\ UNCHANGED <<client, initRet, messages, request, accumulated_response,
                 has_received_text, pulled>>
  /\ UNCHANGED <<dbVars, toolVars, is_initialized>>

\* lib.rs 117 and 181-186: stream.next() is None
StreamEnd(r, ok) ==
  /\ pc[r] = "streaming"
  /\ IF ok
       THEN /\ Emit(r, <<Event("chat-complete", "-")>>)
            /\ Return(r, "Ok")
       ELSE /\ Return(r, "Err: Failed to emit completion")
            /\ UNCHANGED sink
  /\ UNCHANGED <<client, initRet, messages, request, accumulated_response,
                 has_received_text, pulled>>
  /\ UNCHANGED <<dbVars, toolVars, is_initialized>>

\* --------------------------------------------------------- specifications
MainRuns == {1}

\* one stream_chat run over the scenario logs, any provider stream, from any
\* state of the client (init_ai is driven in SpecHistory)
Next ==
  \/ \E r \in MainRuns : Invoke(r, ScenarioLogs)
  \/ \E r \in MainRuns : Start(r)
  \/ \E r \in MainRuns, d \in Deltas, ok \in BOOLEAN : PullText(r, d, ok)
  \/ \E r \in MainRuns, a \in ToolArgs, ok \in BOOLEAN : PullToolCall(r, a, ok)
  \/ \E r \in MainRuns, k \in {"AssistantOther", "OtherItem"} : PullIgnored(r, k)
  \/ \E r \in MainRuns, c \in ToolResults, ok1, ok2 \in BOOLEAN :
        PullToolResult(r, c, ok1, ok2)
  \/ \E r \in MainRuns, ok \in BOOLEAN : PullFinalResponse(r, <<"f">>, ok)
  \/ \E r \in MainRuns, ok \in BOOLEAN : PullErr(r, "e", ok)
  \/ \E r \in MainRuns, ok \in BOOLEAN : StreamEnd(r, ok)

Spec == Init /\ [][Next]_vars

\* the history builder over every message log up to MaxLog
NextHistory ==
  \/ \E k \in {NoKey} \cup Keys : InitAi(k)
  \/ \E r \in MainRuns : Invoke(r, Logs)
  \/ \E r \in MainRuns : Start(r)

SpecHistory == Init /\ [][NextHistory]_vars

\* ------------------------------------------------------- game commands
\* the rows of games with this id
GameRows(id) == {g \in games : g.id = id}

\* a row of games / of game_versions
GameRow(id, spec_json, version) == [id |-> id, spec_json |-> spec_json, version |-> version]
VersionRow(game_id, version, spec_json) ==
  [game_id |-> game_id, version |-> version, spec_json |-> spec_json]

\* the clock advances
Tick ==
  /\ now < MaxNow
  /\ now' = now + 1
  /\ UNCHANGED <<games, game_versions, dbpc, dblocal, dbret, updates_done, chatVars, toolVars>>

\* the operation of caller c returns v
DbReturn(c, v) ==
  /\ dbpc' = [dbpc EXCEPT ![c] = "idle"]
  /\ dbret' = [dbret EXCEPT ![c] = v]
  /\ dblocal' = [dblocal EXCEPT ![c] = NoLocals]

\* the operation of caller c goes on to its next query
DbGoto(c, label) ==
  /\ dbpc' = [dbpc EXCEPT ![c] = label]
  /\ UNCHANGED dbret

\* db.rs 106-109: create_game up to its first query; the id is generate_id()
CreateGameBegin(c, spec) ==
  /\ dbpc[c] = "idle"
  /\ Len(game_versions) < MaxRows
  /\ dblocal' = [dblocal EXCEPT ![c] = [id |-> GameId(now), spec |-> spec, new_version |-> 1]]
  /\ DbGoto(c, "create_insert_game")
  /\ UNCHANGED <<games, game_versions, now, updates_done, chatVars, toolVars>>

\* INSERT INTO games: the table is keyed by id, a second row with the id of
\* an existing row is refused
InsertGame(row) ==
  IF GameRows(row.id) # {} THEN [ok |-> FALSE, games |-> games]
  ELSE [ok |-> TRUE, games |-> games \cup {row}]

\* db.rs 111-124: INSERT INTO games ... version 1
CreateGameInsert(c) ==
  /\ dbpc[c] = "create_insert_game"
  /\ LET l == dblocal[c]
         res == InsertGame(GameRow(l.id, ToJson(l.spec), 1)) IN
       IF res.ok
         THEN /\ games' = res.games
              /\ DbGoto(c, "create_insert_version")
              /\ UNCHANGED dblocal
         ELSE /\ DbReturn(c, DbErr("create_game", "Database", l.id))
              /\ UNCHANGED games
  /\ UNCHANGED <<game_versions, now, updates_done, chatVars, toolVars>>

\* db.rs 127-148: INSERT INTO game_versions ... version 1, and Ok(record)
CreateGameInsertVersion(c) ==
  /\ dbpc[c] = "create_insert_version"
  /\ LET l == dblocal[c] IN
       /\ game_versions' = Append(game_versions, VersionRow(l.id, 1, ToJson(l.spec)))
       /\ DbReturn(c, OkRecord("create_game", l.id, l.spec, 1))
  /\ UNCHANGED <<games, now, updates_done, chatVars, toolVars>>

\* db.rs 186-191: update_game is called
UpdateGameBegin(c, id, spec) ==
  /\ dbpc[c] = "idle"
  /\ Len(game_versions) < MaxRows
  /\ dblocal' = [dblocal EXCEPT ![c] = [id |-> id, spec |-> spec, new_version |-> 0]]
  /\ DbGoto(c, "update_select")
  /\ UNCHANGED <<games, game_versions, now, updates_done, chatVars, toolVars>>

\* db.rs 193-194 and 152-183: get_game(id), NotFound without a row, and
\* new_version = current.version + 1
UpdateGameSelect(c) ==
  /\ dbpc[c] = "update_select"
  /\ LET l == dblocal[c] IN
       IF GameRows(l.id) = {}
         THEN DbReturn(c, DbErr("update_game", "NotFound", l.id))
         ELSE /\ \E current \in GameRows(l.id) :
                   dblocal' = [dblocal EXCEPT ![c].new_version = current.version + 1]
              /\ DbGoto(c, "update_games")
  /\ UNCHANGED <<games, game_versions, now, updates_done, chatVars, toolVars>>

\* db.rs 199-213: UPDATE games SET spec_json, version WHERE id
UpdateGameUpdate(c) ==
  /\ dbpc[c] = "update_games"
  /\ LET l == dblocal[c] IN
       games' = {IF g.id = l.id THEN GameRow(g.id, ToJson(l.spec), l.new_version) ELSE g :
                   g \in games}
  /\ DbGoto(c, "update_insert_version")
  /\ UNCHANGED <<game_versions, now, dblocal, updates_done, chatVars, toolVars>>

UpdateGameInsert_NoRecord(c) ==
  /\ dbpc[c] = "update_insert_version"
  /\ LET l == dblocal[c] IN
       /\ DbReturn(c, OkRecord("update_game", l.id, l.spec, l.new_version))
       /\ updates_done' = [updates_done EXCEPT ![l.id] = @ + 1]
  /\ UNCHANGED <<games, game_versions, now, chatVars, toolVars>>

\* db.rs 216-238: INSERT INTO game_versions ... new_version, and Ok(record)
UpdateGameInsert(c) ==
  /\ dbpc[c] = "update_insert_version"
  /\ LET l == dblocal[c] IN
       /\ game_versions' =
            Append(game_versions, VersionRow(l.id, l.new_version, ToJson(l.spec)))
       /\ DbReturn(c, OkRecord("update_game", l.id, l.spec, l.new_version))
       /\ updates_done' = [updates_done EXCEPT ![l.id] = @ + 1]
  /\ UNCHANGED <<games, now, chatVars, toolVars>>

\* the rows of rows whose version is the greatest
NewestOf(rows) == {v \in rows : \A w \in rows : w.version <= v.version}

RECURSIVE OrderByVersionDesc(_)
\* ORDER BY version DESC (rows of the same version in some order)
OrderByVersionDesc(rows) ==
  IF rows = {} THEN <<>>
  ELSE LET v == CHOOSE x \in NewestOf(rows) : TRUE
       IN <<v>> \o OrderByVersionDesc(rows \ {v})

\* db.rs 290-322: get_game_versions; a row is its rowid and its columns
GetGameVersions(game_id) ==
  OrderByVersionDesc(
    {[rowid |-> i, version |-> game_versions[i].version,
      spec |-> FromJson(game_versions[i].spec_json)] :
       i \in {j \in 1..Len(game_versions) : game_versions[j].game_id = game_id}})

SeqCallers == {1}

\* the game commands called one after the other
NextDb ==
  \/ Tick
  \/ \E c \in SeqCallers, spec \in DbSpecs : CreateGameBegin(c, spec)
  \/ \E c \in SeqCallers : CreateGameInsert(c)
  \/ \E c \in SeqCallers : CreateGameInsertVersion(c)
  \/ \E c \in SeqCallers, id \in GameIds, spec \in DbSpecs : UpdateGameBegin(c, id, spec)
  \/ \E c \in SeqCallers : UpdateGameSelect(c)
  \/ \E c \in SeqCallers : UpdateGameUpdate(c)
  \/ \E c \in SeqCallers : UpdateGameInsert(c)

SpecDb == Init /\ [][NextDb]_vars

\* db.rs 152-183: get_game(id)
GetGame(c, id) ==
  /\ dbpc[c] = "idle"
  /\ IF GameRows(id) = {}
       THEN DbReturn(c, DbErr("get_game", "NotFound", id))
       ELSE \E row \in GameRows(id) :
              DbReturn(c, OkRecord("get_game", row.id, FromJson(row.spec_json), row.version))
  /\ UNCHANGED <<games, game_versions, now, updates_done, chatVars, toolVars>>

\* the rows of game_versions with this game id and version
VersionRows(game_id, version) ==
  {i \in 1..Len(game_versions) :
     game_versions[i].game_id = game_id /\ game_versions[i].version = version}

\* db.rs 325-357: get_game_version(game_id, version)
GetGameVersion(c, game_id, version) ==
  /\ dbpc[c] = "idle"
  /\ IF VersionRows(game_id, version) = {}
       THEN DbReturn(c, DbErr("get_game_version", "NotFound", game_id))
       ELSE \E i \in VersionRows(game_id, version) :
              DbReturn(c, OkRecord("get_game_version", game_id,
                                   FromJson(game_versions[i].spec_json), version))
  /\ UNCHANGED <<games, game_versions, now, updates_done, chatVars, toolVars>>

\* what the schema may say about the version records of a deleted game: no
\* reference to games, a reference that removes them with the game, or a
\* reference that refuses the delete while they exist
OnDelete == {"none", "cascade", "restrict"}

RECURSIVE WithoutGame(_, _)
\* the rows of rows that are not of this game
WithoutGame(rows, game_id) ==
  IF rows = <<>> THEN <<>>
  ELSE LET rest == WithoutGame(Tail(rows), game_id) IN
         IF Head(rows).game_id = game_id THEN rest ELSE <<Head(rows)>> \o rest

DeleteGame_NoCheck(c, id) ==
  /\ dbpc[c] = "idle"
  /\ IF GameRows(id) = {}
       THEN /\ DbReturn(c, OkRecord("delete_game", id, "-", 0))
            /\ UNCHANGED <<games, game_versions>>
       ELSE \E rule \in OnDelete :
              IF rule = "restrict" /\ WithoutGame(game_versions, id) # game_versions
                THEN /\ DbReturn(c, DbErr("delete_game", "Database", id))
                     /\ UNCHANGED <<games, game_versions>>
                ELSE /\ games' = games \ GameRows(id)
                     /\ game_versions' =
                          IF rule = "cascade" THEN WithoutGame(game_versions, id)
                          ELSE game_versions
                     /\ DbReturn(c, OkRecord("delete_game", id, "-", 0))
  /\ UNCHANGED <<now, updates_done, chatVars, toolVars>>

\* db.rs 242-253: DELETE FROM games WHERE id, NotFound if no row was affected
DeleteGame(c, id) ==
  /\ dbpc[c] = "idle"
  /\ IF GameRows(id) = {}
       THEN /\ DbReturn(c, DbErr("delete_game", "NotFound", id))
            /\ UNCHANGED <<games, game_versions>>
       ELSE \E rule \in OnDelete :
              IF rule = "restrict" /\ WithoutGame(game_versions, id) # game_versions
                THEN /\ DbReturn(c, DbErr("delete_game", "Database", id))
                     /\ UNCHANGED <<games, game_versions>>
                ELSE /\ games' = games \ GameRows(id)
                     /\ game_versions' =
                          IF rule = "cascade" THEN WithoutGame(game_versions, id)
                          ELSE game_versions
                     /\ DbReturn(c, OkRecord("delete_game", id, "-", 0))
  /\ UNCHANGED <<now, updates_done, chatVars, toolVars>>

\* db.rs 127-138: the INSERT INTO game_versions of create_game fails
CreateGameInsertVersionFails(c) ==
  /\ dbpc[c] = "create_insert_version"
  /\ DbReturn(c, DbErr("create_game", "Database", dblocal[c].id))
  /\ UNCHANGED <<games, game_versions, now, updates_done, chatVars, toolVars>>

\* db.rs 216-228: the INSERT INTO game_versions of update_game fails
UpdateGameInsertFails(c) ==
  /\ dbpc[c] = "update_insert_version"
  /\ DbReturn(c, DbErr("update_game", "Database", dblocal[c].id))
  /\ UNCHANGED <<games, game_versions, now, updates_done, chatVars, toolVars>>

\* update_game is called while the versions and the count of updates are
\* below the bound
BoundedUpdateGameBegin(c, id, spec) ==
  /\ \A g \in games : g.version < MaxRows
  /\ updates_done[id] < MaxRows
  /\ UpdateGameBegin(c, id, spec)

\* every game command, called one after the other within one millisecond
NextDbOps ==
  \/ \E c \in SeqCallers : CreateGameBegin(c, "p")
  \/ \E c \in SeqCallers : CreateGameInsert(c)
  \/ \E c \in SeqCallers : CreateGameInsertVersion(c)
  \/ \E c \in SeqCallers, id \in GameIds : BoundedUpdateGameBegin(c, id, "q")
  \/ \E c \in SeqCallers : UpdateGameSelect(c)
  \/ \E c \in SeqCallers : UpdateGameUpdate(c)
  \/ \E c \in SeqCallers : UpdateGameInsert(c)
  \/ \E c \in SeqCallers, id \in GameIds : GetGame(c, id)
  \/ \E c \in SeqCallers, id \in GameIds, v \in 1..MaxRows : GetGameVersion(c, id, v)
  \/ \E c \in SeqCallers, id \in GameIds : DeleteGame(c, id)

SpecDbOps == Init /\ [][NextDbOps]_vars

\* create_game and update_game called by two callers at once
NextDbConc ==
  \/ \E c \in Callers, spec \in DbSpecs : CreateGameBegin(c, spec)
  \/ \E c \in Callers : CreateGameInsert(c)
  \/ \E c \in Callers : CreateGameInsertVersion(c)
  \/ \E c \in Callers, id \in GameIds, spec \in DbSpecs : UpdateGameBegin(c, id, spec)
  \/ \E c \in Callers : UpdateGameSelect(c)
  \/ \E c \in Callers : UpdateGameUpdate(c)
  \/ \E c \in Callers : UpdateGameInsert(c)

SpecDbConc == Init /\ [][NextDbConc]_vars

\* create_game and update_game called one after the other within one
\* millisecond, on a database whose inserts into game_versions may fail
NextDbFail ==
  \/ \E c \in SeqCallers, spec \in DbSpecs : CreateGameBegin(c, spec)
  \/ \E c \in SeqCallers : CreateGameInsert(c)
  \/ \E c \in SeqCallers : CreateGameInsertVersion(c)
  \/ \E c \in SeqCallers : CreateGameInsertVersionFails(c)
  \/ \E c \in SeqCallers, id \in GameIds, spec \in DbSpecs :
        BoundedUpdateGameBegin(c, id, spec)
  \/ \E c \in SeqCallers : UpdateGameSelect(c)
  \/ \E c \in SeqCallers : UpdateGameUpdate(c)
  \/ \E c \in SeqCallers : UpdateGameInsert(c)
  \/ \E c \in SeqCallers : UpdateGameInsertFails(c)

SpecDbFail == Init /\ [][NextDbFail]_vars

\* ------------------------------------------------------------ game tool
\* game_builder.rs 792-809: the tool is called with args
ToolCall(args) ==
  /\ tool_args' = args
  /\ tool_output' = PhaserGameToolCall(args)
  /\ UNCHANGED <<chatVars, dbVars>>

NextTool == \E args \in ToolInputs : ToolCall(args)

SpecTool == Init /\ [][NextTool]_vars

\* ------------------------------------------------ two invocations at once
\* the log of the two invocations
ConcLogs == { <<Msg("user", <<"a">>)>> }

\* the stream of run r may yield one more item in SpecConc
ConcMore(r) == Len(pulled[r]) < MaxConcItems

ConcText(r, text, ok) == ConcMore(r) /\ PullText(r, text, ok)
ConcToolCall(r, args, ok) == ConcMore(r) /\ PullToolCall(r, args, ok)
ConcToolResult(r, content, ok1, ok2) == ConcMore(r) /\ PullToolResult(r, content, ok1, ok2)
ConcFinalResponse(r, response, ok) == ConcMore(r) /\ PullFinalResponse(r, response, ok)
ConcErr(r, e, ok) == ConcMore(r) /\ PullErr(r, e, ok)

\* lib.rs 54-187 invoked twice by the host, in any interleaving of the steps
\* of the two invocations, from any state of the client
NextConc ==
  \/ \E r \in Runs : Invoke(r, ConcLogs)
  \/ \E r \in Runs : Start(r)
  \/ \E r \in Runs, d \in Deltas, ok \in BOOLEAN : ConcText(r, d, ok)
  \/ \E r \in Runs, ok \in BOOLEAN : ConcToolCall(r, Spec800x600, ok)
  \/ \E r \in Runs, ok1, ok2 \in BOOLEAN :
        ConcToolResult(r, PhaserGameToolCall(Spec800x600), ok1, ok2)
  \/ \E r \in Runs, ok \in BOOLEAN : ConcFinalResponse(r, <<"f">>, ok)
  \/ \E r \in Runs, ok \in BOOLEAN : ConcErr(r, "e", ok)
  \/ \E r \in Runs, ok \in BOOLEAN : StreamEnd(r, ok)

SpecConc == Init /\ [][NextConc]_vars

\* ------------------------------------------- every command of the host
\* init_ai, is_ai_initialized, two stream_chat invocations and create_game,
\* in any interleaving of their steps
NextInit ==
  \/ \E k \in {NoKey} \cup Keys : InitAi(k)
  \/ IsAiInitialized
  \/ \E r \in Runs : Invoke(r, ConcLogs)
  \/ \E r \in Runs : Start(r)
  \/ \E r \in Runs, ok \in BOOLEAN : ConcText(r, <<"x">>, ok)
  \/ \E r \in Runs, ok \in BOOLEAN : StreamEnd(r, ok)
  \/ \E c \in SeqCallers : CreateGameBegin(c, "p")
  \/ \E c \in SeqCallers : CreateGameInsert(c)
  \/ \E c \in SeqCallers : CreateGameInsertVersion(c)

SpecInit == Init /\ [][NextInit]_vars

TypeOK ==
  /\ client \in {NoKey} \cup Keys
  /\ lock \in {0} \cup Runs
  /\ \A r \in Runs :
       /\ pc[r] \in {"idle", "lock", "streaming", "done"}
       /\ Len(pulled[r]) <= MaxItems
       /\ \A i \in 1..Len(pulled[r]) : pulled[r][i] \in StreamItems
       /\ has_received_text[r] \in BOOLEAN

\* ------------------------------------------------------ derived notions
Names(evs) == [i \in 1..Len(evs) |-> evs[i].name]

Count(evs, n) == Cardinality({i \in 1..Len(evs) : evs[i].name = n})

CountKind(items, k) == Cardinality({i \in 1..Len(items) : items[i].kind = k})

IsPrefix(p, q) == Len(p) <= Len(q) /\ SubSeq(q, 1, Len(p)) = p

\* the run reached the streaming loop
ReachedLoop(r) == request[r] # NoRequest

Ended(r) == pc[r] = "done"

\* the run ended without a failed delivery
NoDeliveryFailed(r) == ret[r] \in {"Ok", "Err: Stream error"}

\* ---------------------------------------------------------------- C1
\* C1: every run that reached the streaming loop and ended, without a failed
\* delivery, has chat-complete as its last Sink event; this covers the run
\* whose stream yields an error.
C1_CompleteIsLast ==
  \A r \in Runs :
    (Ended(r) /\ ReachedLoop(r) /\ NoDeliveryFailed(r)) =>
      /\ sink[r] # <<>>
      /\ sink[r][Len(sink[r])].name = "chat-complete"

EventsFor(item) ==
  CASE item.kind = "Text" -> <<Event("chat-token", item.val)>>
    [] item.kind = "ToolCall" -> <<Event("tool-call", item.val)>>
    [] item.kind = "ToolResult" ->
         <<Event("tool-result", item.val), Event("chat-new-turn", "-")>>
    [] item.kind = "FinalResponse" -> <<Event("chat-final-response", item.val)>>
    [] item.kind = "Err" -> <<Event("chat-error", <<"Stream error: ", item.val>>)>>
    [] OTHER -> <<>>

RECURSIVE Image(_)
Image(items) ==
  IF items = <<>> THEN <<>>
  ELSE Image(SubSeq(items, 1, Len(items) - 1)) \o EventsFor(items[Len(items)])

\* the events of the run without the completion marker
ItemEvents(r) ==
  IF sink[r] # <<>> /\ sink[r][Len(sink[r])].name = "chat-complete"
    THEN SubSeq(sink[r], 1, Len(sink[r]) - 1)
    ELSE sink[r]

\* C4: the events delivered for the stream items are the events of the
\* pulled items in stream order: all events of every item before the last
\* pulled one, followed by the events of the last pulled item (only a prefix
\* of them when a delivery failed); nothing is delivered for an item that
\* has not been pulled.
C4_SinkIsOrderedImage ==
  \A r \in Runs :
    LET n == Len(pulled[r]) IN
      /\ IsPrefix(ItemEvents(r), Image(pulled[r]))
      /\ n > 0 => IsPrefix(Image(SubSeq(pulled[r], 1, n - 1)), ItemEvents(r))
      /\ (pc[r] = "streaming" \/ (Ended(r) /\ NoDeliveryFailed(r))) =>
           ItemEvents(r) = Image(pulled[r])

C4_Witness ==
  \E r \in Runs :
    /\ Len(pulled[r]) = 4
    /\ pulled[r][1].kind = "Text" /\ pulled[r][2].kind = "ToolResult"
    /\ pulled[r][3].kind = "OtherItem" /\ pulled[r][4].kind = "Text"
    /\ pulled[r][1].val # pulled[r][4].val
    /\ Names(sink[r]) = <<"chat-token", "tool-result", "chat-new-turn", "chat-token">>

\* ---------------------------------------------------------------- C5
\* C5: every tool-result event in the Sink is directly followed by a
\* chat-new-turn event, unless the delivery of that chat-new-turn failed and
\* ended the run, and a chat-new-turn event only occurs directly after a
\* tool-result event.
C5_ToolResultThenNewTurn ==
  \A r \in Runs :
    \A i \in 1..Len(sink[r]) :
      /\ sink[r][i].name = "tool-result" =>
           \/ i < Len(sink[r]) /\ sink[r][i + 1].name = "chat-new-turn"
           \/ i = Len(sink[r]) /\ ret[r] = "Err: Failed to emit new-turn"
      /\ sink[r][i].name = "chat-new-turn" =>
           i > 1 /\ sink[r][i - 1].name = "tool-result"

C5_Witness ==
  \E r \in Runs :
    /\ Len(sink[r]) >= 4
    /\ Names(SubSeq(sink[r], 1, 4)) =
         <<"tool-call", "tool-result", "chat-new-turn", "chat-token">>

\* ------------------------------------------------- the history builder
KnownRoles == {"system", "user", "assistant"}

\* the run has locked the client and gone through the message log
Started(r) == pc[r] \in {"streaming", "done"}

IsErr(v) == v \notin {"none", "Ok"}

\* the pairing of the log as the design states it: a user message is pending
\* until the next assistant message closes the pair; an assistant message
\* with no pending user is an ordering error.  pending is 0 or the index of
\* the pending user message.
RefInit == [pending |-> 0, turns |-> <<>>, orphan |-> FALSE]

RefStep(st, log, i) ==
  CASE log[i].role = "user" -> [st EXCEPT !.pending = i]
    [] log[i].role = "assistant" ->
         IF st.pending # 0
           THEN [st EXCEPT !.turns = @ \o <<MessageUser(log[st.pending].content),
                                             MessageAssistant(log[i].content)>>,
                           !.pending = 0]
           ELSE [st EXCEPT !.orphan = TRUE]
    [] OTHER -> st

RECURSIVE RefPairing(_, _)
RefPairing(log, n) ==
  IF n = 0 THEN RefInit ELSE RefStep(RefPairing(log, n - 1), log, n)

AllRolesKnown(log) == \A i \in 1..Len(log) : log[i].role \in KnownRoles

HasOrphanAssistant(log) == RefPairing(log, Len(log)).orphan

ValidLog(log) == AllRolesKnown(log) /\ ~HasOrphanAssistant(log)

\* ---------------------------------------------------------------- C7
\* C7: a run whose log holds an assistant message with no pending user
\* message ends with an error before a stream is opened and without any
\* Sink event.
C7_OrphanAssistantRejected ==
  \A r \in Runs :
    (Started(r) /\ HasOrphanAssistant(messages[r])) =>
      /\ Ended(r) /\ IsErr(ret[r])
      /\ request[r] = NoRequest
      /\ pulled[r] = <<>> /\ sink[r] = <<>>

\* ---------------------------------------------------------------- C8
\* C8: a run whose log holds a message with a role outside system, user,
\* assistant, at any position, ends with an error, opens no stream and
\* delivers no Sink event.
C8_UnknownRoleRejected ==
  \A r \in Runs :
    (Started(r) /\ ~AllRolesKnown(messages[r])) =>
      /\ Ended(r) /\ IsErr(ret[r])
      /\ request[r] = NoRequest
      /\ pulled[r] = <<>> /\ sink[r] = <<>>

C8_Witness ==
  \E r \in Runs :
    /\ Ended(r) /\ ret[r] = "Err: Unknown role"
    /\ Len(messages[r]) = 3
    /\ messages[r][1].role = "assistant"
    /\ messages[r][2].role = "user"
    /\ messages[r][3].role = "tool"
    /\ request[r] = NoRequest /\ sink[r] = <<>>

\* ---------------------------------------------------------------- C9
\* C9: for a valid log the history handed to the provider is the sequence of
\* (user, assistant) pairs in which each assistant message is paired with
\* the nearest preceding unconsumed user message, and the prompt is the one
\* user message left pending, when there is one.
C9_HistoryIsPairing ==
  \A r \in Runs :
    (ReachedLoop(r) /\ ValidLog(messages[r])) =>
      LET ref == RefPairing(messages[r], Len(messages[r])) IN
        /\ request[r].history = ref.turns
        /\ ref.pending # 0 => request[r].prompt = messages[r][ref.pending].content

\* --------------------------------------------------------------- C10
\* the content of message i is not empty and no other message has it
UniqueContent(log, i) ==
  /\ log[i].content # <<>>
  /\ \A k \in 1..Len(log) : k # i => log[k].content # log[i].content

\* C10: of two user messages with no assistant message between them the
\* earlier one (taken with a non-empty content no other message has) is neither in the
\* history nor the prompt of the opened stream, and the later one is the
\* prompt when only system messages follow it.
C10_LastUserWins ==
  \A r \in Runs :
    ReachedLoop(r) =>
      LET log == messages[r] IN
        \A i, j \in 1..Len(log) :
          (/\ i < j
           /\ log[i].role = "user" /\ log[j].role = "user"
           /\ \A k \in (i + 1)..(j - 1) : log[k].role # "assistant") =>
            /\ UniqueContent(log, i) =>
                 /\ request[r].prompt # log[i].content
                 /\ \A h \in 1..Len(request[r].history) :
                      request[r].history[h].content # log[i].content
            /\ (\A k \in (j + 1)..Len(log) : log[k].role = "system") =>
                 request[r].prompt = log[j].content

C10_Witness ==
  \E r \in Runs :
    /\ ReachedLoop(r)
    /\ Len(messages[r]) = 3
    /\ messages[r][1] = Msg("user", <<"a">>)
    /\ messages[r][2] = Msg("user", <<"b">>)
    /\ messages[r][3] = Msg("assistant", <<>>)
    /\ request[r].history = <<MessageUser(<<"b">>), MessageAssistant(<<>>)>>
    /\ request[r].prompt = <<>>

\* --------------------------------------------------------------- C11
LastName(evs) == IF evs = <<>> THEN "none" ELSE evs[Len(evs)].name

\* C11: an error item is the last item the run pulls: the run has ended with
\* Err, the error event was delivered once and is the last Sink event (or
\* was not delivered at all when that delivery failed).
C11_ErrorEndsRun ==
  \A r \in Runs :
    \A i \in 1..Len(pulled[r]) :
      pulled[r][i].kind = "Err" =>
        /\ i = Len(pulled[r])
        /\ Ended(r) /\ IsErr(ret[r])
        /\ \/ /\ ret[r] = "Err: Stream error"
              /\ Count(sink[r], "chat-error") = 1
              /\ LastName(sink[r]) = "chat-error"
           \/ /\ ret[r] = "Err: Failed to emit error"
              /\ Count(sink[r], "chat-error") = 0

C11_Witness ==
  \E r \in Runs :
    /\ Ended(r) /\ ret[r] = "Err: Stream error"
    /\ Len(pulled[r]) = 2
    /\ pulled[r][1].kind = "Text" /\ pulled[r][2].kind = "Err"
    /\ Names(sink[r]) = <<"chat-token", "chat-error">>

\* --------------------------------------------------------------- C12
EmitFailures ==
  {"Err: Failed to emit token", "Err: Failed to emit tool call",
   "Err: Failed to emit tool result", "Err: Failed to emit new-turn",
   "Err: Failed to emit final response", "Err: Failed to emit error",
   "Err: Failed to emit completion"}

\* the kind of the item whose event could not be delivered
FailedKind(v) ==
  CASE v = "Err: Failed to emit token" -> "Text"
    [] v = "Err: Failed to emit tool call" -> "ToolCall"
    [] v = "Err: Failed to emit tool result" -> "ToolResult"
    [] v = "Err: Failed to emit new-turn" -> "ToolResult"
    [] v = "Err: Failed to emit final response" -> "FinalResponse"
    [] v = "Err: Failed to emit error" -> "Err"
    [] OTHER -> "none"

AllButLast(q) == SubSeq(q, 1, Len(q) - 1)

\* C12: a run that returned a delivery error has ended and holds no lock;
\* its Sink holds the events of the items before the one whose delivery
\* failed (and the tool-result event when the chat-new-turn delivery failed)
\* and nothing else: no error event and no completion marker.
C12_DeliveryFailureAborts ==
  \A r \in Runs :
    ret[r] \in EmitFailures =>
      /\ Ended(r) /\ lock # r
      /\ Count(sink[r], "chat-error") = 0
      /\ Count(sink[r], "chat-complete") = 0
      /\ IF ret[r] = "Err: Failed to emit completion"
           THEN sink[r] = Image(pulled[r])
           ELSE /\ pulled[r] # <<>>
                /\ pulled[r][Len(pulled[r])].kind = FailedKind(ret[r])
                /\ sink[r] =
                     Image(AllButLast(pulled[r])) \o
                       (IF ret[r] = "Err: Failed to emit new-turn"
                          THEN <<Event("tool-result", pulled[r][Len(pulled[r])].val)>>
                          ELSE <<>>)

C12_Witness ==
  \E r \in Runs :
    /\ Ended(r) /\ ret[r] = "Err: Failed to emit new-turn"
    /\ Names(sink[r]) = <<"chat-token", "tool-result">>
    /\ Len(pulled[r]) = 2

\* --------------------------------------------------------------- C13
\* the run went through the whole arm of its i-th item
Processed(r, i) ==
  i < Len(pulled[r]) \/ pc[r] = "streaming" \/ ret[r] \notin EmitFailures
    \/ ret[r] = "Err: Failed to emit completion"

\* C13: a tool result that carries a failure is delivered as tool-result
\* followed by chat-new-turn, without an error event, and does not end the
\* run: when it is the last pulled item the run is still streaming or has
\* ended at the end of the stream.
C13_ToolFailureContinues ==
  \A r \in Runs :
    \A i \in 1..Len(pulled[r]) :
      (/\ pulled[r][i].kind = "ToolResult"
       /\ pulled[r][i].val.tag # "Ok"
       /\ Processed(r, i)) =>
        LET at == Len(Image(SubSeq(pulled[r], 1, i - 1))) IN
          /\ Len(sink[r]) >= at + 2
          /\ sink[r][at + 1] = Event("tool-result", pulled[r][i].val)
          /\ sink[r][at + 2] = Event("chat-new-turn", "-")
          /\ i = Len(pulled[r]) =>
               /\ Count(sink[r], "chat-error") = 0
               /\ \/ pc[r] = "streaming" /\ ret[r] = "none"
                  \/ Ended(r) /\ ret[r] \in {"Ok", "Err: Failed to emit completion"}

C13_Witness ==
  \E r \in Runs :
    /\ pc[r] = "streaming"
    /\ Len(pulled[r]) = 3
    /\ pulled[r][1] = Item("ToolCall", SpecZeroWidth)
    /\ pulled[r][2] = Item("ToolResult", PhaserGameToolCall(SpecZeroWidth))
    /\ pulled[r][2].val.tag = "InvalidConfiguration"
    /\ pulled[r][3].kind = "Text"
    /\ Names(sink[r]) = <<"tool-call", "tool-result", "chat-new-turn", "chat-token">>

\* --------------------------------------------------------------- C15
RECURSIVE TextOf(_)
\* the concatenation of the text deltas among items
TextOf(items) ==
  IF items = <<>> THEN <<>>
  ELSE TextOf(AllButLast(items)) \o
         (IF items[Len(items)].kind = "Text" THEN items[Len(items)].val ELSE <<>>)

\* the items whose arm ran to its end: all pulled items, but for a last tool
\* result one of whose deliveries failed
Effective(r) ==
  IF ret[r] \in {"Err: Failed to emit tool result", "Err: Failed to emit new-turn"}
    THEN AllButLast(pulled[r])
    ELSE pulled[r]

\* index of the last turn boundary (tool result) among items, or 0
LastBoundary(items) ==
  LET B == {i \in 1..Len(items) : items[i].kind = "ToolResult"}
  IN IF B = {} THEN 0 ELSE CHOOSE i \in B : \A j \in B : j <= i

SinceBoundary(items) == SubSeq(items, LastBoundary(items) + 1, Len(items))

\* C15 (as claimed): the buffer holds the text deltas received since the
\* most recent turn boundary.
C15_BufferResetAtBoundary ==
  \A r \in Runs :
    accumulated_response[r] = TextOf(SinceBoundary(Effective(r)))

\* C15 (amended): the buffer is never reset: it holds the text deltas
\* received since the start of the run, across turn boundaries.
C15_BufferHoldsAllText ==
  \A r \in Runs : accumulated_response[r] = TextOf(pulled[r])

C15_Witness ==
  \E r \in Runs :
    /\ pc[r] = "streaming"
    /\ Len(pulled[r]) = 3
    /\ pulled[r][1] = Item("Text", <<"x">>)
    /\ pulled[r][2].kind = "ToolResult"
    /\ pulled[r][3] = Item("Text", <<"y">>)
    /\ LastName(SubSeq(sink[r], 1, 3)) = "chat-new-turn"
    /\ accumulated_response[r] = <<"x", "y">>

\* --------------------------------------------------------------- C16
\* C16: has_received_text tells whether a text delta was received since the
\* most recent turn boundary, or since the start of the run.
C16_HasTextSinceBoundary ==
  \A r \in Runs :
    has_received_text[r] =
      (\E i \in 1..Len(SinceBoundary(Effective(r))) :
          SinceBoundary(Effective(r))[i].kind = "Text")

C16_Witness ==
  \E r \in Runs :
    /\ pc[r] = "streaming"
    /\ Len(pulled[r]) = 3
    /\ pulled[r][1].kind = "Text"
    /\ pulled[r][2].kind = "ToolResult"
    /\ pulled[r][3].kind = "ToolCall"
    /\ LastName(SubSeq(sink[r], 1, 3)) = "chat-new-turn"
    /\ ~has_received_text[r]

\* --------------------------------------------------------------- C17
\* C17: whenever the run pulls an item, every event of the items pulled
\* before has been delivered, and one item is pulled at a time; so at most
\* the last pulled item has events that are not in the Sink.
C17_PullAfterDelivery ==
  [][\A r \in Runs :
       pulled'[r] # pulled[r] =>
         /\ sink[r] = Image(pulled[r])
         /\ Len(pulled'[r]) = Len(pulled[r]) + 1
         /\ IsPrefix(Image(pulled[r]), sink'[r])]_vars

C17_Witness ==
  \E r \in Runs :
    /\ pc[r] = "streaming"
    /\ Len(pulled[r]) = 3
    /\ pulled[r][1].kind = "ToolCall"
    /\ pulled[r][2].kind = "ToolResult"
    /\ pulled[r][3].kind = "FinalResponse"
    /\ Names(sink[r]) =
         <<"tool-call", "tool-result", "chat-new-turn", "chat-final-response">>

\* --------------------------------------------------------------- C18
LogA == <<Msg("user", <<"a">>)>>

StreamA ==
  <<Item("Text", <<"x">>), Item("ToolCall", Spec800x600),
    Item("ToolResult", PhaserGameToolCall(Spec800x600)),
    Item("FinalResponse", <<"f">>)>>

SinkA ==
  <<Event("chat-token", <<"x">>), Event("tool-call", Spec800x600),
    Event("tool-result", ToolOk(Spec800x600)), Event("chat-new-turn", "-"),
    Event("chat-final-response", <<"f">>), Event("chat-complete", "-")>>

\* C18: the run over the log of one user message whose stream yields a text,
\* a tool call with a valid 800x600 spec, the successful tool result and the
\* final response, and then ends, with every delivery accepted, returns Ok
\* and has delivered exactly token, tool-call, tool-result, new-turn,
\* final-response, complete.
C18_ScenarioA ==
  \A r \in Runs :
    (/\ Ended(r) /\ NoDeliveryFailed(r)
     /\ messages[r] = LogA /\ pulled[r] = StreamA) =>
      /\ ret[r] = "Ok"
      /\ request[r].mode = "prompt"
      /\ sink[r] = SinkA

C18_Witness ==
  \E r \in Runs :
    /\ Ended(r) /\ ret[r] = "Ok"
    /\ messages[r] = LogA /\ pulled[r] = StreamA
    /\ Len(sink[r]) = 6

\* --------------------------------------------------------------- C14
\* C14 (as claimed): a run never waits for another run to use the client:
\* an invocation that has reached the client can open its stream, whatever
\* the other invocation is doing.
C14_NoRunWaitsForAnother ==
  \A r \in Runs : pc[r] = "lock" => ENABLED Start(r)

\* lib.rs 62-65 and 105-179: the guard of the client mutex lives until
\* stream_chat returns, so at most one run is streaming
C14_OneRunStreams ==
  \A r1, r2 \in Runs :
    (pc[r1] = "streaming" /\ pc[r2] = "streaming") => r1 = r2

\* --------------------------------------------------------------- C19
\* C19: two runs over the same message log whose streams yielded the same
\* items and ended, with every delivery accepted, have delivered the same
\* events in the same order, hold the same accumulator state and returned
\* the same value.
C19_ReplayIsIdentical ==
  \A r1, r2 \in Runs :
    (/\ Ended(r1) /\ Ended(r2)
     /\ NoDeliveryFailed(r1) /\ NoDeliveryFailed(r2)
     /\ messages[r1] = messages[r2]
     /\ pulled[r1] = pulled[r2]) =>
      /\ sink[r1] = sink[r2]
      /\ accumulated_response[r1] = accumulated_response[r2]
      /\ has_received_text[r1] = has_received_text[r2]
      /\ ret[r1] = ret[r2]

C19_Witness ==
  /\ Ended(1) /\ Ended(2)
  /\ ret[1] = "Ok" /\ ret[2] = "Ok"
  /\ messages[1] = messages[2]
  /\ pulled[1] = pulled[2]
  /\ Len(pulled[1]) = 2
  /\ pulled[1][1].kind = "Text"
  /\ pulled[1][2].kind = "ToolResult"
  /\ Len(sink[2]) = 4

\* --------------------------------------------------------------- C20
\* no game command is in progress
DbQuiet == \A c \in Callers : dbpc[c] = "idle"

\* between game commands, the game's version is 1 plus the number of its
\* updates, its version records are one for each of 1..version, newest
\* first, and the newest carries the spec of the game; an update that
\* returned last returned that version and spec
C20_VersionsMatch ==
  DbQuiet =>
    /\ \A g \in games :
         LET vs == GetGameVersions(g.id) IN
           /\ g.version = 1 + updates_done[g.id]
           /\ Len(vs) = g.version
           /\ \A i \in 1..Len(vs) : vs[i].version = g.version - i + 1
           /\ vs[1].spec = FromJson(g.spec_json)
    /\ \A c \in Callers :
         (dbret[c].op = "update_game" /\ dbret[c].tag = "Ok") =>
           \E g \in games :
             /\ g.id = dbret[c].id
             /\ g.version = dbret[c].version
             /\ FromJson(g.spec_json) = dbret[c].spec

\* a step that completes an update has raised the version of its game by
\* one since the last moment between commands, and no other step that ends
\* a command changes a version
C20_UpdateAddsOne ==
  \A c \in Callers :
    (dbpc[c] # "idle" /\ dbpc'[c] = "idle") =>
      \A g \in games' :
        LET id == g.id
            n == IF dbret'[c].op = "update_game" /\ dbret'[c].tag = "Ok"
                      /\ dbret'[c].id = id
                   THEN 1 ELSE 0
        IN updates_done'[id] = updates_done[id] + n
           /\ g.version = 1 + updates_done[id] + n

\* C20: after successful create_game and sequentially executed update_game
\* calls, a game's version is 1 plus the number of its updates, each update
\* raises it by exactly 1, and get_game_versions returns one record for each
\* version 1..version, the newest carrying the updated spec.
C20_UpdateCreatesVersion == []C20_VersionsMatch /\ [][C20_UpdateAddsOne]_vars

C20_Witness ==
  /\ DbQuiet
  /\ \E g \in games :
       /\ g.version = 3
       /\ updates_done[g.id] = 2
       /\ Len(GetGameVersions(g.id)) = 3
       /\ GetGameVersions(g.id)[1].spec = "q"
       /\ GetGameVersions(g.id)[3].spec = "p"
       /\ dbret[1] = OkRecord("update_game", g.id, "q", 3)

\* --------------------------------------------------------------- C23
\* the run has opened its provider stream
Opened(r) == Started(r) /\ request[r] # NoRequest

\* index of the last assistant message of the log, or 0
LastAssistant(log) ==
  LET A == {i \in 1..Len(log) : log[i].role = "assistant"}
  IN IF A = {} THEN 0 ELSE CHOOSE i \in A : \A j \in A : j <= i

\* the content of the user message that is pending at the end of the log:
\* the last user message after the last assistant message, if any
PendingAtEnd(log) ==
  LET U == {i \in 1..Len(log) : log[i].role = "user" /\ i > LastAssistant(log)}
  IN IF U = {} THEN <<>> ELSE log[CHOOSE i \in U : \A j \in U : j <= i].content

\* C23: the stream is opened in prompt mode exactly when the log gave no
\* history (it holds no assistant message) and in chat mode, with that
\* history, otherwise; the prompt is the pending user content at the end of
\* the log.
C23_ModeFollowsHistory ==
  \A r \in Runs :
    Opened(r) =>
      /\ request[r].mode \in {"prompt", "chat"}
      /\ request[r].mode = "prompt" <=> LastAssistant(messages[r]) = 0
      /\ request[r].mode = "prompt" <=> request[r].history = <<>>
      /\ request[r].prompt = PendingAtEnd(messages[r])

C23_Witness ==
  \E r \in Runs :
    /\ Opened(r)
    /\ request[r].mode = "chat"
    /\ Len(request[r].history) = 2
    /\ request[r].prompt = <<"b">>
    /\ Len(messages[r]) = 3

\* --------------------------------------------------------------- C25
RECURSIVE Preamble(_)
\* the base prompt followed by a newline and the content of each system
\* message of the log
Preamble(log) ==
  IF log = <<>> THEN BasePrompt
  ELSE LET m == log[Len(log)] IN
         Preamble(AllButLast(log)) \o
           (IF m.role = "system" THEN <<"\n">> \o m.content ELSE <<>>)

IsNotSystem(m) == m.role # "system"

\* the log without its system messages
WithoutSystem(log) == SelectSeq(log, IsNotSystem)

\* C25: the preamble of the opened stream is the base prompt followed by
\* the system messages of the log, each after a newline, in log order; the
\* prompt and the history are those of the log without its system messages.
C25_SystemGoesToPreamble ==
  \A r \in Runs :
    Opened(r) =>
      /\ request[r].preamble = Preamble(messages[r])
      /\ request[r].prompt = BuildHistory(WithoutSystem(messages[r])).last_user_message
      /\ request[r].history = BuildHistory(WithoutSystem(messages[r])).history

C25_Witness ==
  \E r \in Runs :
    /\ Opened(r)
    /\ Len(messages[r]) = 3
    /\ messages[r][1] = Msg("system", <<"b">>)
    /\ messages[r][2] = Msg("user", <<"a">>)
    /\ messages[r][3] = Msg("system", <<"a">>)
    /\ request[r].preamble = BasePrompt \o <<"\n", "b", "\n", "a">>
    /\ request[r].prompt = <<"a">>
    /\ request[r].history = <<>>

\* --------------------------------------------------------------- C27
\* each assistant message of the log directly follows a user message
EachAssistantAfterUser(log) ==
  \A i \in 1..Len(log) :
    log[i].role = "assistant" => (i > 1 /\ log[i - 1].role = "user")

Alternates(history) ==
  \A i \in 1..Len(history) :
    history[i].role = (IF i % 2 = 1 THEN "user" ELSE "assistant")

\* C27: for a log in which each assistant message directly follows a user
\* message, the history of the opened stream alternates user, assistant,
\* starting with user, whatever the contents are.
C27_HistoryAlternates ==
  \A r \in Runs :
    (Opened(r) /\ EachAssistantAfterUser(messages[r])) =>
      Alternates(request[r].history)

\* --------------------------------------------------------------- C26
MsgNoScene == "Game must have at least one scene"
MsgNoSize == "Game dimensions must be greater than 0"

\* C26: the tool fails with InvalidConfiguration exactly for a spec without
\* scenes or with width 0 or height 0, the missing scenes being reported
\* first; for any other spec it succeeds with the serialized spec.
C26_ToolValidates ==
  tool_output # NoToolOutput =>
    LET a == tool_args
        invalid == a.scenes = 0 \/ a.width = 0 \/ a.height = 0
    IN /\ tool_output.tag = "InvalidConfiguration" <=> invalid
       /\ a.scenes = 0 => tool_output.msg = MsgNoScene
       /\ (invalid /\ a.scenes # 0) => tool_output.msg = MsgNoSize
       /\ ~invalid => (tool_output.tag = "Ok" /\ tool_output.json = a)

C26_Witness ==
  /\ tool_args = [scenes |-> 0, width |-> 0, height |-> 800]
  /\ tool_output.tag = "InvalidConfiguration"
  /\ tool_output.msg = MsgNoScene

\* --------------------------------------------------------------- C22
\* C22: a create_game call never fails because its id is taken, and no two
\* game rows carry the same id.
C22_CreateNeverCollides ==
  /\ \A c \in Callers : dbret[c].op = "create_game" => dbret[c].tag = "Ok"
  /\ \A g1, g2 \in games : g1.id = g2.id => g1 = g2

\* --------------------------------------------------------------- C28
\* caller c has read the current version in update_game and not yet returned
UpdateHasRead(c) == dbpc[c] \in {"update_games", "update_insert_version"}

\* the version numbers of the version records of a game
VersionNumbers(game_id) ==
  {game_versions[i].version :
     i \in {j \in 1..Len(game_versions) : game_versions[j].game_id = game_id}}

\* the number of version records of a game
VersionCount(game_id) ==
  Cardinality({j \in 1..Len(game_versions) : game_versions[j].game_id = game_id})

\* C28: two update_game calls on the same game never hold the same new
\* version number, and between commands the version records of a game are
\* numbered 1..version, each number once, with no update lost.
C28_ConcurrentUpdatesKeepVersions ==
  /\ \A c1, c2 \in Callers :
       (c1 # c2 /\ UpdateHasRead(c1) /\ UpdateHasRead(c2)
          /\ dblocal[c1].id = dblocal[c2].id) =>
         dblocal[c1].new_version # dblocal[c2].new_version
  /\ DbQuiet =>
       \A g \in games :
         /\ VersionNumbers(g.id) = 1..g.version
         /\ VersionCount(g.id) = g.version
         /\ g.version = 1 + updates_done[g.id]

\* --------------------------------------------------------------- C29
\* C29: between commands, also after a command whose insert of the version
\* record failed, every game row of version v has a version record numbered
\* v that carries the spec of the game.
C29_WritesAllOrNothing ==
  DbQuiet =>
    \A g \in games :
      \E i \in 1..Len(game_versions) :
        game_versions[i] = VersionRow(g.id, g.version, g.spec_json)

\* --------------------------------------------------------------- C30
NotFoundFor(c, op, id) ==
  /\ dbpc'[c] = "idle"
  /\ dbret'[c] = DbErr(op, "NotFound", id)
  /\ UNCHANGED <<games, game_versions>>

\* C30: a step of get_game, update_game or delete_game on an id without a
\* game row, and of get_game_version on a game id and version without a
\* version record, returns NotFound and changes no game row and no version
\* record.
C30_NotFoundChangesNothing ==
  [][\A c \in Callers :
       \* a step that returns names the id it was called with
       (dbpc'[c] = "idle" /\ dbret'[c].id \in GameIds) =>
         LET id == dbret'[c].id IN
           /\ GameRows(id) = {} =>
                /\ GetGame(c, id) => NotFoundFor(c, "get_game", id)
                /\ DeleteGame(c, id) => NotFoundFor(c, "delete_game", id)
                /\ (UpdateGameSelect(c) /\ dblocal[c].id = id) =>
                     NotFoundFor(c, "update_game", id)
           /\ dbret'[c].op = "get_game_version" =>
                \A v \in 1..MaxRows :
                  (VersionRows(id, v) = {} /\ GetGameVersion(c, id, v)) =>
                    NotFoundFor(c, "get_game_version", id)]_vars

C30_Witness ==
  /\ DbQuiet
  /\ dbret[1] = DbErr("delete_game", "NotFound", GameId(1))
  /\ \E g \in games : g.id = GameId(0) /\ g.version = 2
  /\ Len(game_versions) = 2

\* --------------------------------------------------------------- C31
NotInitialized == "Err: AI client not initialized"

\* a run that returned for want of a client has opened no stream, pulled no
\* item and delivered no event
C31_NothingDone ==
  \A r \in Runs :
    ret[r] = NotInitialized =>
      /\ Ended(r)
      /\ request[r] = NoRequest
      /\ pulled[r] = <<>> /\ sink[r] = <<>>

\* a run that reaches the client while there is none returns that error at
\* once, whatever its log is
C31_ReturnsAtOnce ==
  \A r \in Runs :
    (client = NoKey /\ pc[r] = "lock" /\ Start(r)) =>
      /\ pc'[r] = "done"
      /\ ret'[r] = NotInitialized
      /\ request'[r] = NoRequest
      /\ sink'[r] = <<>>
      /\ lock' = 0

\* C31: without an initialized client stream_chat returns an error for
\* every message log, also one with an unknown role, without opening a
\* stream or delivering any event.
C31_NoClientNoRun == []C31_NothingDone /\ [][C31_ReturnsAtOnce]_vars

C31_Witness ==
  \E r \in Runs :
    /\ Ended(r) /\ ret[r] = NotInitialized
    /\ client = NoKey /\ initRet = "Err"
    /\ Len(messages[r]) = 3
    /\ messages[r][2].role = "tool"
    /\ sink[r] = <<>>

\* --------------------------------------------------------------- C32
\* C32: while a run is streaming the client is not replaced, and a step
\* that delivers events of one run is taken while no other run is
\* streaming, so the events of two runs are not interleaved.
C32_ClientHeldDuringRun ==
  [][/\ \A r \in Runs : pc[r] = "streaming" => client' = client
     /\ \A r1, r2 \in Runs :
          (r1 # r2 /\ sink'[r1] # sink[r1]) =>
            /\ pc[r2] # "streaming" /\ pc'[r2] # "streaming"
            /\ sink'[r2] = sink[r2]]_vars

C32_Witness ==
  /\ Ended(1) /\ Ended(2)
  /\ Names(sink[1]) = <<"chat-token", "chat-complete">>
  /\ Names(sink[2]) = <<"chat-token", "chat-token", "chat-complete">>
  /\ initRet = "Ok"
  /\ is_initialized = "true"

\* --------------------------------------------------------------- C33
\* C33: init_ai with the empty key returns an error and leaves the client
\* as it is, init_ai with a key sets the client, no step takes the client
\* away, and once is_ai_initialized has returned true it returns true.
C33_InitIsMonotonic ==
  [][/\ InitAi(NoKey) => (initRet' = "Err" /\ client' = client)
     /\ \A k \in Keys : InitAi(k) => (initRet' = "Ok" /\ client' = k)
     /\ client # NoKey => client' # NoKey
     /\ is_initialized = "true" => is_initialized' = "true"]_vars

C33_Witness ==
  /\ is_initialized = "true"
  /\ initRet = "Err"
  /\ client # NoKey
  /\ Ended(1) /\ ret[1] = "Ok"
  /\ dbret[1].op = "create_game" /\ dbret[1].tag = "Ok"

====
